---------------------------- MODULE Spec2Model ----------------------------
(***************************************************************************)
(* A model of the contract composition engine of contracts-wizard and of   *)
(* the access-control and address-verification feature modules built on    *)
(* it.                                                                     *)
(*                                                                         *)
(*   packages/core/solidity/src/add-address-verification.ts                *)
(*       addAddressVerification (structured variant, lines 6-171),         *)
(*       addAddressVerification (freeform variant, lines 177-307),         *)
(*       setAccessControl / requireAccessControl (lines 312-426)           *)
(*   packages/core/stylus/src/set-access-control.ts                        *)
(*       setAccessControl / requireAccessControl of the Stylus dialect     *)
(*                                                                         *)
(* The ContractBuilder the feature modules call into (./contract,          *)
(* ./set-namespaced-storage, ./common-functions) is not part of the        *)
(* sources at hand; its operations are modelled from sections 3, 4 and 7   *)
(* of the specification.                                                   *)
(*                                                                         *)
(* A builder is a record.  A thrown error is the field err: once it is     *)
(* set, the remaining statements of the running handler do not execute     *)
(* (every builder operation is the identity on a builder whose err is      *)
(* set), so a handler that throws half way leaves the mutations made so    *)
(* far, as the code does.                                                  *)
(***************************************************************************)
EXTENDS Naturals, Sequences, FiniteSets, TLC

VARIABLES
    dialect, \* the dialect of the build session: "solidity" or "stylus"
    c,       \* the Solidity ContractBuilder of the build session
    sc,      \* the Stylus ContractBuilder of the build session
    last,    \* the last feature call and how it ended
    ncalls,  \* number of feature calls made in the session
    emitted  \* the texts the emissions of the session returned

vars == <<dialect, c, sc, last, ncalls, emitted>>

\* Bound on the number of feature calls of one build session.
MaxCalls == 2

\* Bound on the number of feature calls that build the model two further calls
\* are compared on.
MaxBaseCalls == 1

-----------------------------------------------------------------------------
(* Values *)

\* JavaScript `false` as an access value.
NoAccess == "false"

\* JavaScript `undefined` (or any falsy string) as a role owner.
undefined == ""

NoErr == "none"

\* solidity accessOptions
accessOptions == {NoAccess, "ownable", "roles", "managed"}

\* stylus accessOptions
stylusAccessOptions == {NoAccess, "ownable", "roles"}

DEFAULT_ACCESS_CONTROL == "ownable"

\* An access value no dialect declares (the Cairo dialect's mode).
UnknownAccess == "roles-dar"

parents ==
    [ Ownable       |-> [name |-> "Ownable",
                         path |-> "@openzeppelin/contracts/access/Ownable.sol"],
      AccessControl |-> [name |-> "AccessControl",
                         path |-> "@openzeppelin/contracts/access/AccessControl.sol"],
      AccessManaged |-> [name |-> "AccessManaged",
                         path |-> "@openzeppelin/contracts/access/manager/AccessManaged.sol"] ]

\* The owner tag of a constructor argument a feature adds for itself.
Own == "own"

-----------------------------------------------------------------------------
(* Sequence helpers *)

Range(s) == { s[i] : i \in 1..Len(s) }

Count(s, x) == Cardinality({ i \in 1..Len(s) : s[i] = x })

IndexOf(s, x) == IF x \in Range(s)
                 THEN CHOOSE i \in 1..Len(s) : s[i] = x /\ \A j \in 1..(i-1) : s[j] # x
                 ELSE 0

NoDup(s) == \A i, j \in 1..Len(s) : s[i] = s[j] => i = j

-----------------------------------------------------------------------------
(* ContractBuilder, Solidity *)

NewBuilder(name, upgradeable) ==
    [ name         |-> name,
      upgradeable  |-> upgradeable,
      state        |-> "Building",
      err          |-> NoErr,
      imports      |-> << >>,
      parents      |-> << >>,
      ctorArgs     |-> << >>,
      ctorCode     |-> << >>,
      constants    |-> << >>,
      variables    |-> << >>,
      storage      |-> << >>,
      functions    |-> << >> ]

Fail(b, e) == [b EXCEPT !.err = e]

\* A builder a mutation may act on: no error thrown, not yet emitted.
Live(b) == b.err = NoErr /\ b.state = "Building"

\* A mutation of an emitted model dropped without an error
RefuseSilently(b) == b

\* What a mutation does on a builder it may not act on.
Refuse(b) == IF b.err # NoErr THEN b ELSE Fail(b, "ModelFrozenError")

HasParent(b, p) == \E i \in 1..Len(b.parents) : b.parents[i].name = p.name

\* addParent(ref, params) -> bool: the value returned
addParentAdded(b, p) == Live(b) /\ ~HasParent(b, p)

\* addParent(ref, params): the builder afterwards
addParent(b, p, params) ==
    IF ~Live(b) THEN Refuse(b)
    ELSE IF HasParent(b, p) THEN b
    ELSE [b EXCEPT !.parents = Append(@, [name |-> p.name, path |-> p.path,
                                          params |-> params])]

\* addConstructorArgument(arg), the argument tagged with its contributor
addConstructorArgument(b, arg, owner) ==
    IF ~Live(b) THEN Refuse(b)
    ELSE IF \E i \in 1..Len(b.ctorArgs) :
                b.ctorArgs[i].name = arg.name /\ b.ctorArgs[i].owner # owner
         THEN Fail(b, "ArgumentNameCollision")
    ELSE IF \E i \in 1..Len(b.ctorArgs) :
                b.ctorArgs[i].name = arg.name /\ b.ctorArgs[i].owner = owner
         THEN b
    ELSE [b EXCEPT !.ctorArgs = Append(@, [type |-> arg.type, name |-> arg.name,
                                            owner |-> owner])]

\* addConstructorCode(stmt)
addConstructorCode(b, stmt) ==
    IF ~Live(b) THEN Refuse(b)
    ELSE [b EXCEPT !.ctorCode = Append(@, stmt)]

\* addImportOnly({name, path}): the identifier is the key of an import
addImportOnly(b, imp) ==
    IF ~Live(b) THEN Refuse(b)
    ELSE IF \E i \in 1..Len(b.imports) :
                b.imports[i].name = imp.name /\ b.imports[i].path # imp.path
         THEN Fail(b, "SymbolConflict")
    ELSE IF \E i \in 1..Len(b.imports) : b.imports[i].name = imp.name
         THEN b
    ELSE [b EXCEPT !.imports = Append(@, [name |-> imp.name, path |-> imp.path,
                                           importOnly |-> TRUE])]

HasConstant(b, text) == \E i \in 1..Len(b.constants) : b.constants[i].text = text

\* addConstantOrImmutableOrErrorDefinition(text, docs) -> bool: the value returned
addConstantOrImmutableOrErrorDefinitionAdded(b, text) == Live(b) /\ ~HasConstant(b, text)

\* addConstantOrImmutableOrErrorDefinition(text, docs): the builder afterwards;
\* the full declaration text is the key, the doc lines the payload
addConstantOrImmutableOrErrorDefinition(b, text, docs) ==
    IF ~Live(b) THEN Refuse(b)
    ELSE IF \E i \in 1..Len(b.constants) :
                b.constants[i].text = text /\ b.constants[i].docs # docs
         THEN Fail(b, "SymbolConflict")
    ELSE IF HasConstant(b, text) THEN b
    ELSE [b EXCEPT !.constants = Append(@, [text |-> text, docs |-> docs])]

\* addStateVariable(text, upgradeable): a registered plain declaration
addStateVariable(b, text, upgradeable) ==
    IF ~Live(b) THEN Refuse(b)
    ELSE IF text \in Range(b.variables) THEN b
    ELSE [b EXCEPT !.variables = Append(@, text)]

\* addVariable(text): a freeform text block, appended as it is
addVariable(b, text) ==
    IF ~Live(b) THEN Refuse(b)
    ELSE [b EXCEPT !.variables = Append(@, text)]

\* The fields `more` that `have` does not hold yet, in order.
RECURSIVE NewFields(_, _)
NewFields(have, more) ==
    IF more = << >> THEN << >>
    ELSE IF Head(more) \in Range(have) THEN NewFields(have, Tail(more))
    ELSE <<Head(more)>> \o NewFields(Append(have, Head(more)), Tail(more))

\* setNamespacedStorage(c, fields, label): one record per namespace label
setNamespacedStorage(b, fields, label) ==
    IF ~Live(b) THEN Refuse(b)
    ELSE IF \E i \in 1..Len(b.storage) : b.storage[i].label = label
         THEN LET i == CHOOSE k \in 1..Len(b.storage) : b.storage[k].label = label
              IN  [b EXCEPT !.storage[i].fields = @ \o NewFields(@, fields)]
    ELSE [b EXCEPT !.storage = Append(@, [label |-> label, contract |-> b.name,
                                           fields |-> NewFields(<< >>, fields)])]

\* toStorageStructInstantiation(name): the accessor statement of a function body
toStorageStructInstantiation(name) ==
    name \o "Storage storage $ = _get" \o name \o "Storage();"

\* The identity of a function: its name and argument types.
SameFunction(e, fn) == e.name = fn.name /\ e.args = fn.args

HasFunction(b, fn) == \E i \in 1..Len(b.functions) : SameFunction(b.functions[i], fn)

FunctionIndex(b, fn) == CHOOSE i \in 1..Len(b.functions) : SameFunction(b.functions[i], fn)

\* addFunction(baseFn): an existing entry is kept as it is
addFunction(b, fn) ==
    IF ~Live(b) THEN Refuse(b)
    ELSE IF HasFunction(b, fn) THEN b
    ELSE [b EXCEPT !.functions = Append(@, [name       |-> fn.name,
                                             args       |-> fn.args,
                                             kind       |-> fn.kind,
                                             mutability |-> fn.mutability,
                                             modifiers  |-> << >>,
                                             override   |-> << >>,
                                             body       |-> fn.code])]

\* addModifier(modifier, baseFn): set semantics on the text, first-seen order
addModifier(b, modifier, fn) ==
    LET b1 == addFunction(b, fn) IN
    IF ~Live(b1) THEN b1
    ELSE LET i == FunctionIndex(b1, fn) IN
         IF modifier \in Range(b1.functions[i].modifiers) THEN b1
         ELSE [b1 EXCEPT !.functions[i].modifiers = Append(@, modifier)]

\* addOverride(parent, baseFn): the parent's identifier joins the target set,
\* kept in the order the targets were added
addOverride(b, parent, fn) ==
    LET b1 == addFunction(b, fn) IN
    IF ~Live(b1) THEN b1
    ELSE LET i == FunctionIndex(b1, fn) IN
         IF parent.name \in Range(b1.functions[i].override) THEN b1
         ELSE [b1 EXCEPT !.functions[i].override = Append(@, parent.name)]

\* addFunctionCode(code, baseFn): the body of a function is set at most once
addFunctionCode(b, code, fn) ==
    LET b1 == addFunction(b, fn) IN
    IF ~Live(b1) THEN b1
    ELSE LET i == FunctionIndex(b1, fn) IN
         IF b1.functions[i].body # << >> THEN Fail(b1, "DuplicateBodyError")
         ELSE [b1 EXCEPT !.functions[i].body = code]

-----------------------------------------------------------------------------
(* set-access-control, Solidity *)

\* common-functions: supportsInterface
supportsInterface ==
    [ name |-> "supportsInterface", args |-> <<"bytes4">>, kind |-> "public",
      mutability |-> "view", code |-> << >> ]

\* requireAccessControl: const roleId = roleIdPrefix + '_ROLE'
RoleId(roleIdPrefix) == roleIdPrefix \o "_ROLE"

\* requireAccessControl: the declaration text of a role constant
RoleConstant(roleId) ==
    "bytes32 public constant " \o roleId \o " = keccak256(\"" \o roleId \o "\");"

\* requireAccessControl: the zero-address check of a role owner
RoleOwnerRequire(roleOwner) ==
    "require(" \o roleOwner \o " != address(0), \"AccessControl: role owner is zero address\");"

\* requireAccessControl: the grant of a role to its owner
RoleGrant(roleId, roleOwner) == "_grantRole(" \o roleId \o ", " \o roleOwner \o ");"

\* requireAccessControl: the modifier of roles mode
OnlyRole(roleId) == "onlyRole(" \o roleId \o ")"

\* setAccessControl, case 'ownable'
setOwnable(b) ==
    IF addParentAdded(b, parents.Ownable)
    THEN addConstructorCode(
           addConstructorArgument(
             addParent(b, parents.Ownable, <<"initialOwner">>),
             [type |-> "address", name |-> "initialOwner"], parents.Ownable.name),
           "require(initialOwner != address(0), \"Ownable: initial owner is zero address\");")
    ELSE addParent(b, parents.Ownable, <<"initialOwner">>)

\* setAccessControl, case 'roles', without its addOverride call
setRolesNoOverride(b) ==
    IF addParentAdded(b, parents.AccessControl)
    THEN addConstructorCode(
           addConstructorCode(
             addConstructorArgument(
               addParent(b, parents.AccessControl, << >>),
               [type |-> "address", name |-> "defaultAdmin"],
               parents.AccessControl.name),
             "require(defaultAdmin != address(0), \"AccessControl: default admin is zero address\");"),
           "_grantRole(DEFAULT_ADMIN_ROLE, defaultAdmin);")
    ELSE addParent(b, parents.AccessControl, << >>)

\* setAccessControl, case 'roles'
setRoles(b) ==
    LET b1 == IF addParentAdded(b, parents.AccessControl)
              THEN addConstructorCode(
                     addConstructorCode(
                       addConstructorArgument(
                         addParent(b, parents.AccessControl, << >>),
                         [type |-> "address", name |-> "defaultAdmin"],
                         parents.AccessControl.name),
                       "require(defaultAdmin != address(0), \"AccessControl: default admin is zero address\");"),
                     "_grantRole(DEFAULT_ADMIN_ROLE, defaultAdmin);")
              ELSE addParent(b, parents.AccessControl, << >>)
    IN  addOverride(b1, parents.AccessControl, supportsInterface)

\* setAccessControl, case 'managed'
setManaged(b) ==
    IF addParentAdded(b, parents.AccessManaged)
    THEN addConstructorCode(
           addConstructorArgument(
             addParent(b, parents.AccessManaged, <<"initialAuthority">>),
             [type |-> "address", name |-> "initialAuthority"], parents.AccessManaged.name),
           "require(initialAuthority != address(0), \"AccessManaged: initial authority is zero address\");")
    ELSE addParent(b, parents.AccessManaged, <<"initialAuthority">>)

\* setAccessControl with the value returned by addParent ignored: the argument
\* and the constructor statements are added on every call.
setAccessControlUnguarded(b, access) ==
    CASE access = "ownable" ->
           addConstructorCode(
             addConstructorArgument(
               addParent(b, parents.Ownable, <<"initialOwner">>),
               [type |-> "address", name |-> "initialOwner"], parents.Ownable.name),
             "require(initialOwner != address(0), \"Ownable: initial owner is zero address\");")
      [] access = "roles" ->
           addOverride(
             addConstructorCode(
               addConstructorCode(
                 addConstructorArgument(
                   addParent(b, parents.AccessControl, << >>),
                   [type |-> "address", name |-> "defaultAdmin"],
                   parents.AccessControl.name),
                 "require(defaultAdmin != address(0), \"AccessControl: default admin is zero address\");"),
               "_grantRole(DEFAULT_ADMIN_ROLE, defaultAdmin);"),
             parents.AccessControl, supportsInterface)
      [] access = "managed" ->
           addConstructorCode(
             addConstructorArgument(
               addParent(b, parents.AccessManaged, <<"initialAuthority">>),
               [type |-> "address", name |-> "initialAuthority"], parents.AccessManaged.name),
             "require(initialAuthority != address(0), \"AccessManaged: initial authority is zero address\");")
      [] OTHER -> b

\* setAccessControl with the `break` of case 'roles' missing: the case falls
\* through into case 'managed'.
setAccessControlFallThrough(b, access) ==
    CASE access = "ownable" -> setOwnable(b)
      [] access = "roles"   -> setManaged(setRoles(b))
      [] access = "managed" -> setManaged(b)
      [] OTHER              -> b

\* setAccessControl(c, access): a switch with no default case
setAccessControl(b, access) ==
    CASE access = "ownable" -> setOwnable(b)
      [] access = "roles"   -> setRoles(b)
      [] access = "managed" -> setManaged(b)
      [] OTHER              -> b

\* requireAccessControl without the substitution of 'ownable' for false.
DefaultedAccessKept(access) == access

\* requireAccessControl: if (access === false) access = 'ownable'
DefaultedAccess(access) == IF access = NoAccess THEN "ownable" ELSE access

\* requireAccessControl, case 'roles', with the role owner's zero-address check
\* left out.
requireRolesUnchecked(b, fn, roleIdPrefix, roleOwner) ==
    LET roleId        == RoleId(roleIdPrefix)
        addedConstant == addConstantOrImmutableOrErrorDefinitionAdded(b, RoleConstant(roleId))
        b1            == addConstantOrImmutableOrErrorDefinition(b, RoleConstant(roleId), << >>)
        b2            == IF roleOwner # undefined /\ addedConstant
                         THEN addConstructorCode(
                                addConstructorArgument(
                                  b1, [type |-> "address", name |-> roleOwner], Own),
                                RoleGrant(roleId, roleOwner))
                         ELSE b1
    IN  addModifier(b2, OnlyRole(roleId), fn)

\* requireAccessControl, case 'roles', with the grant placed before the check.
requireRolesGrantFirst(b, fn, roleIdPrefix, roleOwner) ==
    LET roleId        == RoleId(roleIdPrefix)
        addedConstant == addConstantOrImmutableOrErrorDefinitionAdded(b, RoleConstant(roleId))
        b1            == addConstantOrImmutableOrErrorDefinition(b, RoleConstant(roleId), << >>)
        b2            == IF roleOwner # undefined /\ addedConstant
                         THEN addConstructorCode(
                                addConstructorCode(
                                  addConstructorArgument(
                                    b1, [type |-> "address", name |-> roleOwner], Own),
                                  RoleGrant(roleId, roleOwner)),
                                RoleOwnerRequire(roleOwner))
                         ELSE b1
    IN  addModifier(b2, OnlyRole(roleId), fn)

\* requireAccessControl, case 'roles', with the role owner's constructor
\* argument left out.
requireRolesNoArgument(b, fn, roleIdPrefix, roleOwner) ==
    LET roleId        == RoleId(roleIdPrefix)
        addedConstant == addConstantOrImmutableOrErrorDefinitionAdded(b, RoleConstant(roleId))
        b1            == addConstantOrImmutableOrErrorDefinition(b, RoleConstant(roleId), << >>)
        b2            == IF roleOwner # undefined /\ addedConstant
                         THEN addConstructorCode(
                                addConstructorCode(b1, RoleOwnerRequire(roleOwner)),
                                RoleGrant(roleId, roleOwner))
                         ELSE b1
    IN  addModifier(b2, OnlyRole(roleId), fn)

\* requireAccessControl, case 'roles', with the role owner's argument and
\* grant added by every call that names a role owner.
requireRolesGrantAlways(b, fn, roleIdPrefix, roleOwner) ==
    LET roleId == RoleId(roleIdPrefix)
        b1     == addConstantOrImmutableOrErrorDefinition(b, RoleConstant(roleId), << >>)
        b2     == IF roleOwner # undefined
                  THEN addConstructorCode(
                         addConstructorCode(
                           addConstructorArgument(
                             b1, [type |-> "address", name |-> roleOwner], Own),
                           RoleOwnerRequire(roleOwner)),
                         RoleGrant(roleId, roleOwner))
                  ELSE b1
    IN  addModifier(b2, OnlyRole(roleId), fn)

\* requireAccessControl, case 'roles'
requireRoles(b, fn, roleIdPrefix, roleOwner) ==
    LET roleId        == RoleId(roleIdPrefix)
        addedConstant == addConstantOrImmutableOrErrorDefinitionAdded(b, RoleConstant(roleId))
        b1            == addConstantOrImmutableOrErrorDefinition(b, RoleConstant(roleId), << >>)
        b2            == IF roleOwner # undefined /\ addedConstant
                         THEN addConstructorCode(
                                addConstructorCode(
                                  addConstructorArgument(
                                    b1, [type |-> "address", name |-> roleOwner], Own),
                                  RoleOwnerRequire(roleOwner)),
                                RoleGrant(roleId, roleOwner))
                         ELSE b1
    IN  addModifier(b2, OnlyRole(roleId), fn)

\* requireAccessControl with the role owner's argument and grant added only
\* by the call that newly adds the AccessControl parent.
requireAccessControlGrantWithParent(b, fn, access, roleIdPrefix, roleOwner) ==
    LET a  == DefaultedAccess(access)
        b1 == setAccessControl(b, a)
    IN  CASE a = "ownable" -> addModifier(b1, "onlyOwner", fn)
          [] a = "roles"   ->
               IF addParentAdded(b, parents.AccessControl)
               THEN requireRoles(b1, fn, roleIdPrefix, roleOwner)
               ELSE requireRoles(b1, fn, roleIdPrefix, undefined)
          [] a = "managed" -> addModifier(b1, "restricted", fn)
          [] OTHER         -> b1

\* requireAccessControl with the modifiers of 'ownable' and 'managed' exchanged.
requireAccessControlSwapped(b, fn, access, roleIdPrefix, roleOwner) ==
    LET a  == DefaultedAccess(access)
        b1 == setAccessControl(b, a)
    IN  CASE a = "ownable" -> addModifier(b1, "restricted", fn)
          [] a = "roles"   -> requireRoles(b1, fn, roleIdPrefix, roleOwner)
          [] a = "managed" -> addModifier(b1, "onlyOwner", fn)
          [] OTHER         -> b1

\* requireAccessControl(c, fn, access, roleIdPrefix, roleOwner)
requireAccessControl(b, fn, access, roleIdPrefix, roleOwner) ==
    LET a  == DefaultedAccess(access)
        b1 == setAccessControl(b, a)
    IN  CASE a = "ownable" -> addModifier(b1, "onlyOwner", fn)
          [] a = "roles"   -> requireRoles(b1, fn, roleIdPrefix, roleOwner)
          [] a = "managed" -> addModifier(b1, "restricted", fn)
          [] OTHER         -> b1

-----------------------------------------------------------------------------
(* set-access-control, Stylus *)

NewStylusBuilder(name) ==
    [ name        |-> name,
      err         |-> NoErr,
      useClauses  |-> << >>,
      traits      |-> << >>,
      constants   |-> << >>,
      functions   |-> << >> ]

\* throw new Error('Unknown value for `access`')
UnknownEnumValue == "UnknownEnumValue"

\* stylus setAccessControl with the commented-out body of case 'ownable' in force
stylusSetAccessControlOwnable(b, access) ==
    IF b.err # NoErr THEN b
    ELSE CASE access = NoAccess  -> b
           [] access = "ownable" ->
                IF "Ownable" \in Range(b.traits) THEN b
                ELSE [b EXCEPT !.useClauses = Append(@, <<"openzeppelin_stylus::access::ownable",
                                                          "Ownable">>),
                               !.traits = Append(@, "Ownable")]
           [] access = "roles"   -> b
           [] OTHER              -> Fail(b, UnknownEnumValue)

\* stylus setAccessControl(_c, access): every case body is commented out
stylusSetAccessControl(b, access) ==
    IF b.err # NoErr THEN b
    ELSE CASE access = NoAccess  -> b
           [] access = "ownable" -> b
           [] access = "roles"   -> b
           [] OTHER              -> Fail(b, UnknownEnumValue)

\* stylus requireAccessControl: if (access === false) access = DEFAULT_ACCESS_CONTROL
stylusDefaultedAccess(access) == IF access = NoAccess THEN DEFAULT_ACCESS_CONTROL ELSE access

\* stylus requireAccessControl(c, _trait, _fn, access, _roleIdPrefix, _roleOwner)
stylusRequireAccessControl(b, trait, fn, access, roleIdPrefix, roleOwner) ==
    LET a  == stylusDefaultedAccess(access)
        b1 == stylusSetAccessControl(b, a)
    IN  IF b1.err # NoErr THEN b1
        ELSE CASE a = "ownable" -> b1
               [] a = "roles"   -> b1
               [] OTHER         -> Fail(b1, UnknownEnumValue)

-----------------------------------------------------------------------------
(* add-address-verification, structured variant *)

functions ==
    [ isAddressVerified |->
        [ name |-> "isAddressVerified", args |-> <<"address">>, kind |-> "public",
          mutability |-> "view", code |-> << >> ],
      verifyAddressOwnership |->
        [ name |-> "verifyAddressOwnership", args |-> <<"bytes32", "bytes">>,
          kind |-> "public", mutability |-> "nonpayable", code |-> << >> ],
      revokeAddressVerification |->
        [ name |-> "revokeAddressVerification", args |-> <<"address">>,
          kind |-> "public", mutability |-> "nonpayable", code |-> << >> ] ]

\* [...].filter(line => line !== '')
NonEmptyLines(lines) == SelectSeq(lines, LAMBDA l : l # "")

\* storageAccess.trimEnd(): the accessor line, or '' when not upgradeable
StorageAccessLine(b) == IF b.upgradeable THEN toStorageStructInstantiation(b.name) ELSE ""

\* verifiedAddressesRef
VerifiedAddressesRef(b) == IF b.upgradeable THEN "$._verifiedAddresses" ELSE "_verifiedAddresses"

\* addIsAddressVerifiedFunction writing the body whatever the entry holds
addIsAddressVerifiedFunctionOverwriting(b) ==
    LET b1 == addFunction(b, functions.isAddressVerified) IN
    IF ~Live(b1) THEN b1
    ELSE [b1 EXCEPT !.functions[FunctionIndex(b1, functions.isAddressVerified)].body =
              NonEmptyLines(<< StorageAccessLine(b),
                               "return " \o VerifiedAddressesRef(b) \o "[account];" >>)]

addIsAddressVerifiedFunction(b) ==
    addFunctionCode(b,
        NonEmptyLines(<< StorageAccessLine(b),
                         "return " \o VerifiedAddressesRef(b) \o "[account];" >>),
        functions.isAddressVerified)

addVerifyAddressOwnershipFunction(b) ==
    addFunctionCode(b,
        NonEmptyLines(<<
            StorageAccessLine(b),
            "// Hash the message according to EIP-191",
            "bytes32 ethSignedMessageHash = MessageHashUtils.toEthSignedMessageHash(message);",
            "",
            "// Recover the signer address from the signature",
            "address recoveredAddress = ECDSA.recover(ethSignedMessageHash, signature);",
            "",
            "// Check if the recovered address matches the sender",
            "if (recoveredAddress != msg.sender) {",
            "    revert InvalidSignature();",
            "}",
            "",
            "// Check if already verified",
            "if (" \o VerifiedAddressesRef(b) \o "[msg.sender]) {",
            "    revert AlreadyVerified();",
            "}",
            "",
            "// Mark the address as verified",
            VerifiedAddressesRef(b) \o "[msg.sender] = true;",
            "",
            "// Emit verification event",
            "emit AddressVerified(msg.sender);" >>),
        functions.verifyAddressOwnership)

\* requireAccessControl is called with four arguments: roleOwner is undefined
addRevokeAddressVerificationFunction(b, access) ==
    addFunctionCode(
        requireAccessControl(b, functions.revokeAddressVerification, access,
                             "DEFAULT_ADMIN_ROLE", undefined),
        NonEmptyLines(<<
            StorageAccessLine(b),
            "// Revoke verification",
            VerifiedAddressesRef(b) \o "[account] = false;",
            "",
            "// Emit revocation event",
            "emit VerificationRevoked(account);" >>),
        functions.revokeAddressVerification)

ECDSAImport ==
    [name |-> "ECDSA", path |-> "@openzeppelin/contracts/utils/cryptography/ECDSA.sol"]

\* The second import registered under the identifier of the first
MessageHashUtilsImportAsECDSA ==
    [name |-> "ECDSA",
     path |-> "@openzeppelin/contracts/utils/cryptography/MessageHashUtils.sol"]

MessageHashUtilsImport ==
    [name |-> "MessageHashUtils",
     path |-> "@openzeppelin/contracts/utils/cryptography/MessageHashUtils.sol"]

\* addAddressVerification(c, access), lines 6-64
addAddressVerification(b, access) ==
    LET b1 == addImportOnly(b, ECDSAImport)
        b2 == addImportOnly(b1, MessageHashUtilsImport)
        b3 == addConstantOrImmutableOrErrorDefinition(b2,
                  "event AddressVerified(address indexed account);",
                  <<"/// @dev Emitted when an address is verified">>)
        b4 == addConstantOrImmutableOrErrorDefinition(b3,
                  "event VerificationRevoked(address indexed account);",
                  <<"/// @dev Emitted when address verification is revoked">>)
        b5 == addConstantOrImmutableOrErrorDefinition(b4,
                  "error InvalidSignature();",
                  <<"/// @dev Error thrown when signature verification fails">>)
        b6 == addConstantOrImmutableOrErrorDefinition(b5,
                  "error AlreadyVerified();",
                  <<"/// @dev Error thrown when address is already verified">>)
        b7 == IF b.upgradeable
              THEN setNamespacedStorage(b6,
                       <<"mapping(address account => bool verified) _verifiedAddresses">>,
                       "openzeppelin.storage")
              ELSE addStateVariable(b6,
                       "mapping(address => bool) private _verifiedAddresses;", FALSE)
        b8 == addIsAddressVerifiedFunction(b7)
        b9 == addVerifyAddressOwnershipFunction(b8)
    IN  IF access # NoAccess THEN addRevokeAddressVerificationFunction(b9, access) ELSE b9

-----------------------------------------------------------------------------
(* add-address-verification, freeform variant *)

freeformFunctions ==
    [ isAddressVerified |->
        [ name |-> "isAddressVerified", args |-> <<"address">>, kind |-> "public",
          mutability |-> "nonpayable",
          code |-> << "return _verifiedAddresses[account];" >> ],
      verifyAddressOwnership |->
        [ name |-> "verifyAddressOwnership", args |-> <<"bytes32", "bytes">>,
          kind |-> "public", mutability |-> "nonpayable",
          code |-> <<
            "// Hash the message according to EIP-191",
            "bytes32 ethSignedMessageHash = MessageHashUtils.toEthSignedMessageHash(message);",
            "",
            "// Recover the signer address from the signature",
            "address recoveredAddress = ECDSA.recover(ethSignedMessageHash, signature);",
            "",
            "// Check if the recovered address matches the sender",
            "if (recoveredAddress != msg.sender) {",
            "    revert InvalidSignature();",
            "}",
            "",
            "// Check if already verified",
            "if (_verifiedAddresses[msg.sender]) {",
            "    revert AlreadyVerified();",
            "}",
            "",
            "// Mark the address as verified",
            "_verifiedAddresses[msg.sender] = true;",
            "",
            "// Emit verification event",
            "emit AddressVerified(msg.sender);" >> ],
      revokeAddressVerification |->
        [ name |-> "revokeAddressVerification", args |-> <<"address">>,
          kind |-> "public", mutability |-> "nonpayable",
          code |-> <<
            "// Revoke verification",
            "_verifiedAddresses[account] = false;",
            "",
            "// Emit revocation event",
            "emit VerificationRevoked(account);" >> ] ]

\* addAddressVerification(c, access), lines 177-230
addAddressVerificationFreeform(b, access) ==
    LET b1 == addImportOnly(b, ECDSAImport)
        b2 == addImportOnly(b1, MessageHashUtilsImport)
        b3 == addVariable(b2,
                  "\n    // Mapping to track addresses that have been verified\n    mapping(address => bool) private _verifiedAddresses;\n  ")
        b4 == addVariable(b3,
                  "\n    // Event emitted when an address is verified\n    event AddressVerified(address indexed account);\n  ")
        b5 == addVariable(b4,
                  "\n    // Event emitted when address verification is revoked\n    event VerificationRevoked(address indexed account);\n  ")
        b6 == addVariable(b5,
                  "\n    // Error thrown when signature verification fails\n    error InvalidSignature();\n  ")
        b7 == addVariable(b6,
                  "\n    // Error thrown when address is already verified\n    error AlreadyVerified();\n  ")
        b8 == addFunction(b7, freeformFunctions.isAddressVerified)
        b9 == addFunction(b8, freeformFunctions.verifyAddressOwnership)
    IN  IF access # NoAccess
        THEN requireAccessControl(b9, freeformFunctions.revokeAddressVerification, access,
                                  "DEFAULT_ADMIN_ROLE", undefined)
        ELSE b9

-----------------------------------------------------------------------------
(* Emitter *)

ArgumentsOwnedBy(b, owner) == SelectSeq(b.ctorArgs, LAMBDA a : a.owner = owner)

RECURSIVE ParentArguments(_, _)
ParentArguments(b, i) ==
    IF i > Len(b.parents) THEN << >>
    ELSE ArgumentsOwnedBy(b, b.parents[i].name) \o ParentArguments(b, i + 1)

\* The merged constructor signature: the arguments of the parents in parent
\* order, then the contract's own arguments.
ConstructorSignature(b) == ParentArguments(b, 1) \o ArgumentsOwnedBy(b, Own)

\* The elements of a sequence of texts, `sep` between them.
RECURSIVE JoinWith(_, _)
JoinWith(texts, sep) ==
    IF texts = << >> THEN ""
    ELSE IF Len(texts) = 1 THEN texts[1]
    ELSE texts[1] \o sep \o JoinWith(Tail(texts), sep)

\* The sequences of a sequence of sequences, one after the other.
RECURSIVE Flatten(_)
Flatten(seqs) == IF seqs = << >> THEN << >> ELSE Head(seqs) \o Flatten(Tail(seqs))

\* The parent identifiers in the order of their text.
IdentifierOrder == << parents.AccessControl.name, parents.AccessManaged.name,
                      parents.Ownable.name >>

\* The identifiers of a target list, each once, in the order of their text.
SortedIdentifiers(targets) == SelectSeq(IdentifierOrder, LAMBDA x : x \in Range(targets))

\* The override clause of a function: sorted and deduplicated.
OverrideClause(targets) ==
    IF targets = << >> THEN ""
    ELSE "override(" \o JoinWith(SortedIdentifiers(targets), ", ") \o ")"

ImportLines(b) ==
    [ i \in 1..Len(b.imports) |->
        "import {" \o b.imports[i].name \o "} from \"" \o b.imports[i].path \o "\";" ]

ConstantLines(b) ==
    Flatten([ i \in 1..Len(b.constants) |-> Append(b.constants[i].docs, b.constants[i].text) ])

\* The composite string the slot identifier of a storage record is hashed from.
StorageLocation(label, name) == label \o ".storage." \o name

StorageLines(b) ==
    Flatten([ i \in 1..Len(b.storage) |->
        << "/// @custom:storage-location erc7201:"
             \o StorageLocation(b.storage[i].label, b.storage[i].contract),
           "struct " \o b.storage[i].contract \o "Storage {" >>
        \o [ k \in 1..Len(b.storage[i].fields) |-> b.storage[i].fields[k] \o ";" ]
        \o << "}" >> ])

InheritanceClause(b) ==
    "contract " \o b.name
      \o (IF b.parents = << >> THEN ""
          ELSE " is " \o JoinWith([ i \in 1..Len(b.parents) |-> b.parents[i].name ], ", "))
      \o " {"

ConstructorLines(b) ==
    IF b.ctorArgs = << >> /\ b.ctorCode = << >> THEN << >>
    ELSE LET sig  == ConstructorSignature(b)
             base == SelectSeq(b.parents, LAMBDA p : p.params # << >>)
         IN  << "constructor("
                  \o JoinWith([ i \in 1..Len(sig) |-> sig[i].type \o " " \o sig[i].name ], ", ")
                  \o ")"
                  \o JoinWith([ i \in 1..Len(base) |->
                                 " " \o base[i].name \o "("
                                     \o JoinWith(base[i].params, ", ") \o ")" ], "")
                  \o " {" >>
             \o b.ctorCode \o << "}" >>

FunctionLines(e) ==
    << JoinWith(SelectSeq(<< "function " \o e.name \o "(" \o JoinWith(e.args, ", ") \o ")",
                             e.kind,
                             IF e.mutability = "nonpayable" THEN "" ELSE e.mutability,
                             JoinWith(e.modifiers, " "),
                             OverrideClause(e.override),
                             "{" >>,
                          LAMBDA t : t # ""), " ") >>
    \o e.body \o << "}" >>

\* The text of an emission: one deterministic pass over the model.
Render(b) ==
    ImportLines(b) \o ConstantLines(b)
      \o (IF b.upgradeable THEN StorageLines(b) ELSE << >>) \o b.variables
      \o << InheritanceClause(b) >> \o ConstructorLines(b)
      \o Flatten([ i \in 1..Len(b.functions) |-> FunctionLines(b.functions[i]) ])
      \o << "}" >>

-----------------------------------------------------------------------------
(* The build session *)

ContractName == "MyContract"

\* The functions requireAccessControl is applied to: a function of another
\* feature, and the revocation function of the address-verification feature.
OtherFunctions ==
    { [ name |-> "mint",  args |-> <<"address", "uint256">>, kind |-> "public",
        mutability |-> "nonpayable", code |-> << >> ],
      functions.revokeAddressVerification }

RoleIdPrefixes == {"MINTER", "PAUSER"}

RoleOwners == {undefined, "minter", "initialOwner"}

\* The access values a caller may pass to the Solidity features.
AccessInputs == accessOptions \cup {UnknownAccess}

\* The access values a caller may pass to the Stylus features.
StylusAccessInputs == stylusAccessOptions \cup {"managed", UnknownAccess}

Outcome(b) == IF b.err = NoErr THEN "ok" ELSE b.err

\* A feature call: the operation, its arguments, and how it ended.
Call(op, fn, access, roleIdPrefix, roleOwner, b) ==
    [ op |-> op, fn |-> fn, access |-> access, roleIdPrefix |-> roleIdPrefix,
      roleOwner |-> roleOwner, outcome |-> Outcome(b) ]

\* The arguments of a call that takes no function and no role.
NoFunction == "none"

\* A session accepts feature calls until one of them throws.
Open(d) == dialect = d /\ c.err = NoErr /\ sc.err = NoErr /\ ncalls < MaxCalls

Init ==
    /\ dialect \in {"solidity", "stylus"}
    /\ c \in { NewBuilder(ContractName, u) : u \in BOOLEAN }
    /\ sc = NewStylusBuilder(ContractName)
    /\ last = [ op |-> "new", fn |-> NoFunction, access |-> NoAccess, roleIdPrefix |-> "",
               roleOwner |-> undefined, outcome |-> "ok" ]
    /\ ncalls = 0
    /\ emitted = {}

SetAccessControl ==
    \E access \in AccessInputs :
        /\ Open("solidity")
        /\ c' = setAccessControl(c, access)
        /\ last' = Call("setAccessControl", NoFunction, access, "", undefined, c')
        /\ ncalls' = ncalls + 1
        /\ UNCHANGED <<dialect, sc, emitted>>

RequireAccessControl ==
    \E fn \in OtherFunctions, access \in AccessInputs,
       roleIdPrefix \in RoleIdPrefixes, roleOwner \in RoleOwners :
        /\ Open("solidity")
        /\ c' = requireAccessControl(c, fn, access, roleIdPrefix, roleOwner)
        /\ last' = Call("requireAccessControl", fn.name, access, roleIdPrefix, roleOwner, c')
        /\ ncalls' = ncalls + 1
        /\ UNCHANGED <<dialect, sc, emitted>>

AddAddressVerification ==
    \E access \in AccessInputs :
        /\ Open("solidity")
        /\ c' = addAddressVerification(c, access)
        /\ last' = Call("addAddressVerification", NoFunction, access, "", undefined, c')
        /\ ncalls' = ncalls + 1
        /\ UNCHANGED <<dialect, sc, emitted>>

AddAddressVerificationFreeform ==
    \E access \in AccessInputs :
        /\ Open("solidity")
        /\ c' = addAddressVerificationFreeform(c, access)
        /\ last' = Call("addAddressVerificationFreeform", NoFunction, access, "", undefined, c')
        /\ ncalls' = ncalls + 1
        /\ UNCHANGED <<dialect, sc, emitted>>

\* An emission returns the text of the model; the first one freezes the model.
\* A model can be emitted again, also after it refused a mutation.  An
\* emission is a reading of the model and not one of the feature calls.
Emit ==
    /\ dialect = "solidity"
    /\ c.err \in {NoErr, "ModelFrozenError"}
    /\ c' = [c EXCEPT !.state = "Emitted"]
    /\ emitted' = emitted \cup {Render(c)}
    /\ last' = [ Call("emit", NoFunction, NoAccess, "", undefined, c')
                  EXCEPT !.outcome = "ok" ]
    /\ UNCHANGED <<dialect, sc, ncalls>>

StylusSetAccessControl ==
    \E access \in StylusAccessInputs :
        /\ Open("stylus")
        /\ sc' = stylusSetAccessControl(sc, access)
        /\ last' = Call("setAccessControl", NoFunction, access, "", undefined, sc')
        /\ ncalls' = ncalls + 1
        /\ UNCHANGED <<dialect, c, emitted>>

StylusRequireAccessControl ==
    \E fn \in OtherFunctions, access \in StylusAccessInputs,
       roleIdPrefix \in RoleIdPrefixes, roleOwner \in RoleOwners :
        /\ Open("stylus")
        /\ sc' = stylusRequireAccessControl(sc, "trait", fn, access, roleIdPrefix, roleOwner)
        /\ last' = Call("requireAccessControl", fn.name, access, roleIdPrefix, roleOwner, sc')
        /\ ncalls' = ncalls + 1
        /\ UNCHANGED <<dialect, c, emitted>>

Next ==
    \/ SetAccessControl
    \/ RequireAccessControl
    \/ AddAddressVerification
    \/ AddAddressVerificationFreeform
    \/ Emit
    \/ StylusSetAccessControl
    \/ StylusRequireAccessControl

Spec == Init /\ [][Next]_vars

\* A Solidity build session in which only the access-control feature is applied.
AccessControlInit == Init /\ dialect = "solidity"

AccessControlNext == SetAccessControl \/ RequireAccessControl

AccessControlSpec == AccessControlInit /\ [][AccessControlNext]_vars

-----------------------------------------------------------------------------
(* Reading a builder *)

Modes == {"ownable", "roles", "managed"}

\* The parent, the constructor argument and the zero-address check of a mode.
ModeParent   == [ownable |-> "Ownable", roles |-> "AccessControl", managed |-> "AccessManaged"]

ModeArgument == [ownable |-> "initialOwner", roles |-> "defaultAdmin",
                 managed |-> "initialAuthority"]

ZeroAddressMessages ==
    { "Ownable: initial owner is zero address",
      "AccessControl: default admin is zero address",
      "AccessManaged: initial authority is zero address",
      "AccessControl: role owner is zero address" }

ModeMessage == [ownable |-> "Ownable: initial owner is zero address",
                roles   |-> "AccessControl: default admin is zero address",
                managed |-> "AccessManaged: initial authority is zero address"]

\* The text of a require statement that rejects address(0) for `arg`.
ZeroAddressRequire(arg, message) ==
    "require(" \o arg \o " != address(0), \"" \o message \o "\");"

IsZeroAddressRequire(stmt, arg) ==
    \E m \in ZeroAddressMessages : stmt = ZeroAddressRequire(arg, m)

\* The role ids a constructor statement may name.
RoleIds == {"DEFAULT_ADMIN_ROLE"} \cup { RoleId(p) : p \in RoleIdPrefixes \cup {"DEFAULT_ADMIN_ROLE"} }

\* The argument names a constructor statement may name.
ArgumentNames == { ModeArgument[m] : m \in Modes } \cup (RoleOwners \ {undefined})

IsGrantTo(stmt, arg) == \E r \in RoleIds : stmt = RoleGrant(r, arg)

ParentNames(b) == { b.parents[i].name : i \in 1..Len(b.parents) }

CountParent(b, name) == Cardinality({ i \in 1..Len(b.parents) : b.parents[i].name = name })

CountArgument(b, name) == Cardinality({ i \in 1..Len(b.ctorArgs) : b.ctorArgs[i].name = name })

Modifiers(b, name) ==
    IF \E i \in 1..Len(b.functions) : b.functions[i].name = name
    THEN b.functions[CHOOSE i \in 1..Len(b.functions) : b.functions[i].name = name].modifiers
    ELSE << >>

-----------------------------------------------------------------------------
(* Claims *)

\* C1. Idempotent parent addition: however many times a mode is requested by
\* setAccessControl / requireAccessControl, a build that has not failed holds
\* the mode's parent at most once, and with the parent exactly one constructor
\* argument for it, its zero-address require exactly once and, for roles, the
\* _grantRole(DEFAULT_ADMIN_ROLE, defaultAdmin) statement exactly once.
IdempotentParentAddition ==
    c.err = NoErr =>
      \A m \in Modes :
        /\ CountParent(c, ModeParent[m]) <= 1
        /\ CountParent(c, ModeParent[m]) = 1 =>
              /\ CountArgument(c, ModeArgument[m]) = 1
              /\ \E i \in 1..Len(c.ctorArgs) :
                     /\ c.ctorArgs[i].name = ModeArgument[m]
                     /\ c.ctorArgs[i].owner = ModeParent[m]
              /\ Count(c.ctorCode, ZeroAddressRequire(ModeArgument[m], ModeMessage[m])) = 1
              /\ m = "roles" =>
                    Count(c.ctorCode, RoleGrant("DEFAULT_ADMIN_ROLE", "defaultAdmin")) = 1
        /\ CountParent(c, ModeParent[m]) = 0 =>
              Count(c.ctorCode, ZeroAddressRequire(ModeArgument[m], ModeMessage[m])) = 0

\* A build in which roles mode was requested twice, once for each function.
IdempotentParentAdditionWitness ==
    /\ c.err = NoErr
    /\ ncalls = 2
    /\ last.op = "requireAccessControl" /\ last.access = "roles"
    /\ Modifiers(c, "mint") # << >> /\ Modifiers(c, "revokeAddressVerification") # << >>
    /\ CountParent(c, "AccessControl") = 1

\* C2. Zero-address validation: every address constructor argument of the
\* model has a require statement in the constructor body that rejects
\* address(0) for that argument.
ZeroAddressValidation ==
    \A i \in 1..Len(c.ctorArgs) :
        c.ctorArgs[i].type = "address" =>
          \E j \in 1..Len(c.ctorCode) : IsZeroAddressRequire(c.ctorCode[j], c.ctorArgs[i].name)

\* A build with a parent's argument and a role owner's argument.
ZeroAddressValidationWitness ==
    /\ CountArgument(c, "defaultAdmin") = 1
    /\ CountArgument(c, "minter") = 1
    /\ last.op = "requireAccessControl" /\ last.outcome = "ok"

\* C3. Roles are only granted after address validation: every statement of
\* the constructor body is a zero-address require or a _grantRole, and every
\* _grantRole(R, A) is preceded by a zero-address require for A.
GrantAfterValidation ==
    \A j \in 1..Len(c.ctorCode) :
        /\ \E a \in ArgumentNames :
              IsZeroAddressRequire(c.ctorCode[j], a) \/ IsGrantTo(c.ctorCode[j], a)
        /\ \A a \in ArgumentNames :
              IsGrantTo(c.ctorCode[j], a) =>
                \E i \in 1..(j-1) : IsZeroAddressRequire(c.ctorCode[i], a)

\* A build whose constructor grants the admin role and a role to its owner.
GrantAfterValidationWitness ==
    /\ \E j \in 1..Len(c.ctorCode) : c.ctorCode[j] = RoleGrant("MINTER_ROLE", "minter")
    /\ \E j \in 1..Len(c.ctorCode) : c.ctorCode[j] = RoleGrant("DEFAULT_ADMIN_ROLE", "defaultAdmin")

\* The function of another feature, by its name.
FunctionNamed(name) == CHOOSE f \in OtherFunctions : f.name = name

\* A step that is the feature call `op`.
IsCall(op) == ncalls' = ncalls + 1 /\ last'.op = op

\* C4. Default substitution: requireAccessControl with access = false ends as
\* the same call with access = 'ownable' ends and leaves the same model; it is
\* never rejected as an unknown value, and where it succeeds in Solidity the
\* model holds the Ownable parent, the initialOwner argument with its require
\* and the onlyOwner modifier on the given function.
DefaultSubstitution ==
    [][ (IsCall("requireAccessControl") /\ last'.access = NoAccess) =>
          IF dialect = "solidity"
          THEN /\ c' = requireAccessControl(c, FunctionNamed(last'.fn), "ownable",
                                           last'.roleIdPrefix, last'.roleOwner)
               /\ c'.err # UnknownEnumValue
               /\ c'.err = NoErr =>
                     /\ CountParent(c', "Ownable") = 1
                     /\ CountArgument(c', "initialOwner") = 1
                     /\ ZeroAddressRequire("initialOwner", ModeMessage["ownable"])
                           \in Range(c'.ctorCode)
                     /\ "onlyOwner" \in Range(Modifiers(c', last'.fn))
          ELSE /\ sc' = stylusRequireAccessControl(sc, "trait", FunctionNamed(last'.fn),
                                                   DEFAULT_ACCESS_CONTROL,
                                                   last'.roleIdPrefix, last'.roleOwner)
               /\ sc'.err = NoErr
      ]_vars

\* A Solidity build whose last call passed false and gained the owner-only
\* restriction.
DefaultSubstitutionWitness ==
    /\ dialect = "solidity"
    /\ last.op = "requireAccessControl" /\ last.access = NoAccess /\ last.outcome = "ok"
    /\ "onlyOwner" \in Range(Modifiers(c, last.fn))
    /\ CountParent(c, "Ownable") = 1

\* The variant set a dialect declares.
DeclaredAccess(d) == IF d = "solidity" THEN accessOptions ELSE stylusAccessOptions

\* C5. Unknown mode fails fast: in every dialect a setAccessControl or
\* requireAccessControl call given an access value outside the dialect's
\* accessOptions ends with the UnknownEnumValue error.
UnknownModeFailsFast ==
    ( /\ last.op \in {"setAccessControl", "requireAccessControl"}
      /\ last.access \notin DeclaredAccess(dialect) )
    => last.outcome = UnknownEnumValue

\* The texts that declare a symbol of the address-verification feature: the
\* registered declaration, the freeform block, the namespaced storage field.
DeclarationTexts(symbol) ==
    CASE symbol = "AddressVerified" ->
           { "event AddressVerified(address indexed account);",
             "\n    // Event emitted when an address is verified\n    event AddressVerified(address indexed account);\n  " }
      [] symbol = "VerificationRevoked" ->
           { "event VerificationRevoked(address indexed account);",
             "\n    // Event emitted when address verification is revoked\n    event VerificationRevoked(address indexed account);\n  " }
      [] symbol = "InvalidSignature" ->
           { "error InvalidSignature();",
             "\n    // Error thrown when signature verification fails\n    error InvalidSignature();\n  " }
      [] symbol = "AlreadyVerified" ->
           { "error AlreadyVerified();",
             "\n    // Error thrown when address is already verified\n    error AlreadyVerified();\n  " }
      [] symbol = "_verifiedAddresses" ->
           { "mapping(address => bool) private _verifiedAddresses;",
             "\n    // Mapping to track addresses that have been verified\n    mapping(address => bool) private _verifiedAddresses;\n  ",
             "mapping(address account => bool verified) _verifiedAddresses" }

VerificationSymbols ==
    {"AddressVerified", "VerificationRevoked", "InvalidSignature", "AlreadyVerified",
     "_verifiedAddresses"}

\* The number of declarations of a symbol a builder holds.
DeclarationCount(b, symbol) ==
      Cardinality({ i \in 1..Len(b.constants) : b.constants[i].text \in DeclarationTexts(symbol) })
    + Cardinality({ i \in 1..Len(b.variables) : b.variables[i] \in DeclarationTexts(symbol) })
    + Cardinality({ p \in UNION { { <<i, k>> : k \in 1..Len(b.storage[i].fields) } :
                                     i \in 1..Len(b.storage) } :
                      b.storage[p[1]].fields[p[2]] \in DeclarationTexts(symbol) })

\* C6. Single definition per symbol: a build that has not failed holds at most
\* one declaration of each of AddressVerified, VerificationRevoked,
\* InvalidSignature, AlreadyVerified and _verifiedAddresses, whichever variants
\* of addAddressVerification were applied and however often.
SingleDefinitionPerSymbol ==
    c.err = NoErr => \A s \in VerificationSymbols : DeclarationCount(c, s) <= 1

\* The requireAccessControl calls a caller may issue.  The role id prefix and
\* the role owner are read in roles mode only, so the other modes are listed
\* with one value of each.
RequireCalls ==
    { k \in [fn : OtherFunctions, access : AccessInputs,
              roleIdPrefix : RoleIdPrefixes, roleOwner : RoleOwners] :
        k.access # "roles" => (k.roleIdPrefix = "MINTER" /\ k.roleOwner = undefined) }

ApplyRequire(b, k) == requireAccessControl(b, k.fn, k.access, k.roleIdPrefix, k.roleOwner)

\* What the order of two calls may not change: the sets of parents, of
\* constructor arguments, of constructor statements and of modifiers of each
\* function.
SetView(b) ==
    [ parents   |-> ParentNames(b),
      arguments |-> { b.ctorArgs[i].name : i \in 1..Len(b.ctorArgs) },
      code      |-> Range(b.ctorCode),
      modifiers |-> { <<b.functions[i].name, Range(b.functions[i].modifiers)>> :
                        i \in 1..Len(b.functions) } ]

\* Two calls that name the same role id with different role owners.
SameRoleOtherOwner(j, k) ==
    /\ j.access = "roles" /\ k.access = "roles"
    /\ j.roleIdPrefix = k.roleIdPrefix
    /\ j.roleOwner # k.roleOwner

\* C7 as stated. Order independence: any two requireAccessControl calls that
\* succeed in both orders yield the same sets of parents, constructor
\* arguments, constructor statements and modifiers in either order.
OrderIndependenceAsStated ==
    (dialect = "solidity" /\ Live(c) /\ ncalls <= MaxBaseCalls) =>
      \A j, k \in RequireCalls :
        LET jk == ApplyRequire(ApplyRequire(c, j), k)
            kj == ApplyRequire(ApplyRequire(c, k), j)
        IN  (jk.err = NoErr /\ kj.err = NoErr) => SetView(jk) = SetView(kj)

\* C7, amended. Order independence: two requireAccessControl calls on a model
\* built by at most MaxBaseCalls calls, that succeed in both orders and do not
\* name the same role id with different role owners, yield the same sets of
\* parents, constructor arguments, constructor statements and modifiers of each
\* function in either order.
OrderIndependence ==
    (dialect = "solidity" /\ Live(c) /\ ncalls <= MaxBaseCalls) =>
      \A j, k \in RequireCalls :
        LET jk == ApplyRequire(ApplyRequire(c, j), k)
            kj == ApplyRequire(ApplyRequire(c, k), j)
        IN  (~SameRoleOtherOwner(j, k) /\ jk.err = NoErr /\ kj.err = NoErr)
            => SetView(jk) = SetView(kj)

\* A build made of a roles call for mint and an owner-only call for
\* revokeAddressVerification, which is what the two calls give in the other order.
OrderIndependenceWitness ==
    /\ dialect = "solidity" /\ ncalls = 2 /\ c.err = NoErr
    /\ last.op = "requireAccessControl" /\ last.fn = "revokeAddressVerification" /\ last.access = "ownable"
    /\ RoleGrant("MINTER_ROLE", "minter") \in Range(c.ctorCode)
    /\ SetView(c) =
         SetView(requireAccessControl(
                   requireAccessControl(NewBuilder(c.name, c.upgradeable),
                                        FunctionNamed("revokeAddressVerification"), "ownable", "MINTER", undefined),
                   FunctionNamed("mint"), "roles", "MINTER", "minter"))

ArgumentNamesOf(args) == [i \in 1..Len(args) |-> args[i].name]

\* In the list of names `order`, the argument of each parent precedes the
\* argument of every parent added later and every own argument added later.
ParentsFirstAdded(b, order) ==
    \A i \in 1..Len(b.parents) :
      \A x \in 1..Len(b.ctorArgs) :
        b.ctorArgs[x].owner = b.parents[i].name =>
          /\ \A j \in (i+1)..Len(b.parents) :
                \A y \in 1..Len(b.ctorArgs) :
                  b.ctorArgs[y].owner = b.parents[j].name =>
                    /\ IndexOf(order, b.ctorArgs[x].name) > 0
                    /\ IndexOf(order, b.ctorArgs[x].name) < IndexOf(order, b.ctorArgs[y].name)
          /\ \A y \in (x+1)..Len(b.ctorArgs) :
                b.ctorArgs[y].owner = Own =>
                  /\ IndexOf(order, b.ctorArgs[x].name) > 0
                  /\ IndexOf(order, b.ctorArgs[x].name) < IndexOf(order, b.ctorArgs[y].name)

\* C8. Constructor merge order: in the stored argument list and in the merged
\* constructor signature the argument of an earlier-added parent precedes the
\* argument of every later-added parent and every later own argument, and the
\* ownable mode followed by the roles mode on a fresh model gives the signature
\* (address initialOwner, address defaultAdmin).
ConstructorMergeOrder ==
    /\ ParentsFirstAdded(c, ArgumentNamesOf(c.ctorArgs))
    /\ ParentsFirstAdded(c, ArgumentNamesOf(ConstructorSignature(c)))
    /\ LET b == setAccessControl(setAccessControl(NewBuilder(c.name, c.upgradeable),
                                                  "ownable"), "roles")
           sig == ConstructorSignature(b)
       IN  /\ b.err = NoErr
           /\ [i \in 1..Len(sig) |-> <<sig[i].type, sig[i].name>>]
                = << <<"address", "initialOwner">>, <<"address", "defaultAdmin">> >>

\* A build with two parents and an own argument between their arguments.
ConstructorMergeOrderWitness ==
    /\ c.err = NoErr
    /\ ArgumentNamesOf(c.ctorArgs) = <<"defaultAdmin", "minter", "initialAuthority">>
    /\ ArgumentNamesOf(ConstructorSignature(c)) = <<"defaultAdmin", "initialAuthority", "minter">>

HasArgument(b, name) == \E i \in 1..Len(b.ctorArgs) : b.ctorArgs[i].name = name

HasArgumentOf(b, name, owner) ==
    \E i \in 1..Len(b.ctorArgs) : b.ctorArgs[i].name = name /\ b.ctorArgs[i].owner = owner

\* C9. Argument name collision: a constructor argument whose name is present
\* from a different owner is refused with ArgumentNameCollision and the
\* argument list stays as it was; re-adding the same argument by the same
\* owner adds nothing; an absent name is appended.  This holds of the role
\* owner of requireAccessControl, of the parent argument of setAccessControl
\* and of a second parent that contributes initialOwner.
ArgumentNameCollision ==
    [][ /\ ( /\ IsCall("requireAccessControl") /\ dialect = "solidity"
             /\ last'.access = "roles" /\ last'.roleOwner # undefined
             /\ setAccessControl(c, "roles").err = NoErr
             /\ ~HasConstant(c, RoleConstant(RoleId(last'.roleIdPrefix))) )
           => LET b1 == setAccessControl(c, "roles") IN
              IF HasArgument(b1, last'.roleOwner) /\ ~HasArgumentOf(b1, last'.roleOwner, Own)
              THEN c'.err = "ArgumentNameCollision" /\ c'.ctorArgs = b1.ctorArgs
              ELSE IF HasArgumentOf(b1, last'.roleOwner, Own)
              THEN c'.err = NoErr /\ c'.ctorArgs = b1.ctorArgs
              ELSE /\ c'.err = NoErr
                   /\ c'.ctorArgs = Append(b1.ctorArgs, [type  |-> "address",
                                                          name  |-> last'.roleOwner,
                                                          owner |-> Own])
        /\ ( /\ IsCall("setAccessControl") /\ dialect = "solidity" /\ Live(c)
             /\ last'.access \in Modes
             /\ CountParent(c, ModeParent[last'.access]) = 0 )
           => IF HasArgument(c, ModeArgument[last'.access])
              THEN c'.err = "ArgumentNameCollision" /\ c'.ctorArgs = c.ctorArgs
              ELSE /\ c'.err = NoErr
                   /\ c'.ctorArgs = Append(c.ctorArgs, [type  |-> "address",
                                                         name  |-> ModeArgument[last'.access],
                                                         owner |-> ModeParent[last'.access]])
        /\ (Live(c) /\ HasArgumentOf(c, "initialOwner", "Ownable"))
           => /\ addConstructorArgument(c, [type |-> "address", name |-> "initialOwner"],
                                        "AccessManaged").err = "ArgumentNameCollision"
              /\ addConstructorArgument(c, [type |-> "address", name |-> "initialOwner"],
                                        "Ownable") = c
      ]_vars

\* A build refused because a role owner is named as the Ownable parent's
\* argument.
ArgumentNameCollisionWitness ==
    /\ last.op = "requireAccessControl" /\ last.access = "roles"
    /\ last.roleOwner = "initialOwner"
    /\ last.outcome = "ArgumentNameCollision"
    /\ HasArgumentOf(c, "initialOwner", "Ownable")

\* The modifier text a mode puts on a function.
ModeModifier(access, roleIdPrefix) ==
    CASE access = "ownable" -> "onlyOwner"
      [] access = "roles"   -> "onlyRole(" \o roleIdPrefix \o "_ROLE)"
      [] access = "managed" -> "restricted"

FunctionEntries(b, name) == { i \in 1..Len(b.functions) : b.functions[i].name = name }

Body(b, name) ==
    IF FunctionEntries(b, name) = {} THEN << >>
    ELSE b.functions[CHOOSE i \in FunctionEntries(b, name) : TRUE].body

\* C10. Modifier accumulation: a requireAccessControl call that succeeds
\* leaves the modifiers of its function a duplicate-free list: the list before
\* the call when it holds the mode's modifier text, that list with the text
\* appended otherwise (so the same mode twice gives one modifier, and ownable
\* then managed gives [onlyOwner, restricted]); the function has one entry and
\* the body it had, and no other function's modifiers change.
ModifierAccumulation ==
    [][ ( /\ IsCall("requireAccessControl") /\ dialect = "solidity"
          /\ last'.access \in accessOptions /\ c'.err = NoErr )
        => LET before == Modifiers(c, last'.fn)
               after  == Modifiers(c', last'.fn)
               text   == ModeModifier(IF last'.access = NoAccess THEN "ownable"
                                      ELSE last'.access, last'.roleIdPrefix)
           IN  /\ after = IF text \in Range(before) THEN before ELSE Append(before, text)
               /\ NoDup(after)
               /\ before = <<"onlyOwner">> /\ last'.access = "managed"
                    => after = <<"onlyOwner", "restricted">>
               /\ Cardinality(FunctionEntries(c', last'.fn)) = 1
               /\ Body(c', last'.fn) = Body(c, last'.fn)
               /\ \A i \in 1..Len(c.functions) :
                     c.functions[i].name # last'.fn =>
                       c'.functions[i].modifiers = c.functions[i].modifiers
      ]_vars

\* revokeAddressVerification with the body the verification feature gave it,
\* restricted to the owner by that feature and then by a managed-mode call.
ModifierAccumulationWitness ==
    /\ c.err = NoErr
    /\ last.op = "requireAccessControl" /\ last.access = "managed"
    /\ last.fn = "revokeAddressVerification"
    /\ Modifiers(c, "revokeAddressVerification") = <<"onlyOwner", "restricted">>
    /\ Body(c, "revokeAddressVerification") # << >>

\* The functions the address-verification feature gives a body.
VerificationFunctions ==
    {"isAddressVerified", "verifyAddressOwnership", "revokeAddressVerification"}

\* C11. Body set at most once: a successful addAddressVerification is the one
\* contribution of the bodies of isAddressVerified and verifyAddressOwnership
\* (and of revokeAddressVerification when access is not false); once one of the
\* three functions has a body, no step changes that body or adds a second
\* entry for the function, and addAddressVerification applied to the model
\* again ends with DuplicateBodyError.
BodySetAtMostOnce ==
    [][ /\ \A name \in VerificationFunctions :
              Body(c, name) # << >> =>
                /\ Body(c', name) = Body(c, name)
                /\ Cardinality(FunctionEntries(c', name)) = 1
                /\ (IsCall("addAddressVerification") /\ c.state = "Building")
                      => last'.outcome = "DuplicateBodyError"
        /\ (IsCall("addAddressVerification") /\ c'.err = NoErr) =>
              /\ \A name \in {"isAddressVerified", "verifyAddressOwnership"} :
                    Body(c, name) = << >> /\ Body(c', name) # << >>
              /\ last'.access # NoAccess =>
                    /\ Body(c, "revokeAddressVerification") = << >>
                    /\ Body(c', "revokeAddressVerification") # << >>
      ]_vars

\* addAddressVerification applied to a model whose functions have their
\* bodies, and refused.
BodySetAtMostOnceWitness ==
    /\ last.op = "addAddressVerification" /\ last.outcome = "DuplicateBodyError"
    /\ \A name \in {"isAddressVerified", "verifyAddressOwnership"} : Body(c, name) # << >>

\* A feature call that issues a mutation: every call but setAccessControl
\* with false and the calls given a value outside accessOptions.
AttemptsMutation(k) ==
    \/ k.op \in {"addAddressVerification", "addAddressVerificationFreeform"}
    \/ k.op = "requireAccessControl" /\ k.access \in accessOptions
    \/ k.op = "setAccessControl" /\ k.access \in Modes

\* The model of a builder, whatever error its last call threw.
ModelOf(b) == [b EXCEPT !.err = NoErr]

\* C12. Post-emission freeze: a feature call on an emitted model that issues a
\* mutation ends with ModelFrozenError, and no step changes an emitted model or
\* takes it back to Building; every emission of the session returns the same
\* text, also an emission that follows a refused mutation.
PostEmissionFreeze ==
    [][ /\ (dialect = "solidity" /\ c.state = "Emitted" /\ ncalls' = ncalls + 1) =>
              /\ c' = IF AttemptsMutation(last') THEN Fail(c, "ModelFrozenError") ELSE c
              /\ last'.outcome = Outcome(c')
        /\ c.state = "Emitted" => ModelOf(c') = ModelOf(c)
        /\ (last'.op = "emit" /\ c.state = "Emitted") => emitted' = emitted
        /\ Cardinality(emitted') <= 1
      ]_vars

\* A model with a restricted function, emitted, then refusing a mutation, then
\* emitted again.
PostEmissionFreezeWitness ==
    /\ last.op = "emit" /\ c.state = "Emitted" /\ c.err = "ModelFrozenError"
    /\ Modifiers(c, "revokeAddressVerification") = <<"onlyOwner">>
    /\ Cardinality(emitted) = 1
    /\ \A text \in emitted : text = Render(c) /\ Len(text) > 10

CountImport(b, name) == Cardinality({ i \in 1..Len(b.imports) : b.imports[i].name = name })

\* The imports of the address-verification feature.
VerificationImports == {ECDSAImport, MessageHashUtilsImport}

\* A source locator none of the features names.
OtherPath == "@openzeppelin/contracts-upgradeable/utils/cryptography/ECDSA.sol"

\* C13. Import conflict detection: on a model that holds an import, registering
\* the identifier again with the same path changes nothing and with another
\* path ends with SymbolConflict and the import list as it was; no build ends
\* with SymbolConflict, no build holds an import twice, and a model either
\* variant of addAddressVerification was applied to, however often, holds the
\* ECDSA import and the MessageHashUtils import once each, with their paths.
ImportConflictDetection ==
    /\ c.err # "SymbolConflict"
    /\ \A imp \in VerificationImports :
          /\ CountImport(c, imp.name) <= 1
          /\ ( \/ FunctionEntries(c, "isAddressVerified") # {}
               \/ /\ last.op \in {"addAddressVerification", "addAddressVerificationFreeform"}
                  /\ last.outcome # "ModelFrozenError" )
             => /\ CountImport(c, imp.name) = 1
                /\ \E i \in 1..Len(c.imports) :
                      c.imports[i].name = imp.name /\ c.imports[i].path = imp.path
          /\ (Live(c) /\ CountImport(c, imp.name) = 1)
             => /\ addImportOnly(c, imp) = c
                /\ addImportOnly(c, [imp EXCEPT !.path = OtherPath])
                     = Fail(c, "SymbolConflict")
          /\ (Live(c) /\ CountImport(c, imp.name) = 0)
             => CountImport(addImportOnly(c, imp), imp.name) = 1

\* The freeform variant applied twice, which leaves each import once.
ImportConflictDetectionWitness ==
    /\ ncalls = 2 /\ c.err = NoErr
    /\ last.op = "addAddressVerificationFreeform"
    /\ Len(c.variables) = 10
    /\ Len(c.imports) = 2
    /\ \A imp \in VerificationImports : CountImport(c, imp.name) = 1

\* The plain declarations of _verifiedAddresses a builder holds.
PlainDeclarations(b) ==
    { i \in 1..Len(b.variables) : b.variables[i] \in DeclarationTexts("_verifiedAddresses") }

\* The storage records labelled 'openzeppelin.storage' that hold the field.
RecordDeclarations(b) ==
    { i \in 1..Len(b.storage) :
        /\ b.storage[i].label = "openzeppelin.storage"
        /\ \E k \in 1..Len(b.storage[i].fields) :
              b.storage[i].fields[k] \in DeclarationTexts("_verifiedAddresses") }

\* The body lines that reach the mapping through the record accessor, and
\* those that name it directly.
AccessorLines ==
    { "return $._verifiedAddresses[account];", "if ($._verifiedAddresses[msg.sender]) {",
      "$._verifiedAddresses[msg.sender] = true;", "$._verifiedAddresses[account] = false;" }

DirectLines ==
    { "return _verifiedAddresses[account];", "if (_verifiedAddresses[msg.sender]) {",
      "_verifiedAddresses[msg.sender] = true;", "_verifiedAddresses[account] = false;" }

BodyLines(b) == UNION { Range(b.functions[i].body) : i \in 1..Len(b.functions) }

\* C14. Storage routing: in a build that has not failed and that
\* addAddressVerification was applied to, _verifiedAddresses is a field of the
\* 'openzeppelin.storage' record and not a plain variable when the model is
\* upgradeable, and a plain variable with no storage record when it is not;
\* the function bodies go through the record accessor exactly when the model
\* is upgradeable.
StorageRouting ==
    (c.err = NoErr /\ FunctionEntries(c, "isAddressVerified") # {}) =>
      IF c.upgradeable
      THEN /\ RecordDeclarations(c) # {} /\ PlainDeclarations(c) = {}
           /\ BodyLines(c) \cap AccessorLines # {} /\ BodyLines(c) \cap DirectLines = {}
           /\ toStorageStructInstantiation(c.name) \in BodyLines(c)
      ELSE /\ PlainDeclarations(c) # {} /\ c.storage = << >>
           /\ BodyLines(c) \cap DirectLines # {} /\ BodyLines(c) \cap AccessorLines = {}

\* The roles the constructor body grants to one of the constructor arguments.
GrantedRoles(b) ==
    { r \in RoleIds : \E arg \in ArgumentNames :
                        HasArgument(b, arg) /\ RoleGrant(r, arg) \in Range(b.ctorCode) }

\* C15. Admin-only revocation: after addAddressVerification in roles mode the
\* constructor grants DEFAULT_ADMIN_ROLE to defaultAdmin,
\* revokeAddressVerification carries onlyRole(DEFAULT_ADMIN_ROLE), and every
\* role an onlyRole modifier of the function demands is granted by the
\* constructor body to a constructor argument.
AdminOnlyRevocation ==
    ( /\ c.err = NoErr
      /\ last.op \in {"addAddressVerification", "addAddressVerificationFreeform"}
      /\ last.access = "roles" )
    => /\ HasArgument(c, "defaultAdmin")
       /\ RoleGrant("DEFAULT_ADMIN_ROLE", "defaultAdmin") \in Range(c.ctorCode)
       /\ OnlyRole("DEFAULT_ADMIN_ROLE") \in Range(Modifiers(c, "revokeAddressVerification"))
       /\ \A r \in RoleIds :
             OnlyRole(r) \in Range(Modifiers(c, "revokeAddressVerification"))
               => r \in GrantedRoles(c)

\* C16. Stylus access control enforces nothing: a Stylus setAccessControl or
\* requireAccessControl call given false, 'ownable' or 'roles' returns without
\* error and leaves the contract builder as it was: no trait, use clause,
\* constant or function code is added.
StylusEnforcesNothing ==
    [][ ( /\ dialect = "stylus" /\ ncalls' = ncalls + 1
          /\ last'.op \in {"setAccessControl", "requireAccessControl"}
          /\ last'.access \in stylusAccessOptions )
        => /\ last'.outcome = "ok"
           /\ sc' = sc
           /\ sc'.traits = << >> /\ sc'.useClauses = << >>
           /\ sc'.constants = << >> /\ sc'.functions = << >>
      ]_vars

\* A Stylus build after a roles-mode requireAccessControl and a second call.
StylusEnforcesNothingWitness ==
    /\ dialect = "stylus" /\ ncalls = 2
    /\ last.op = "requireAccessControl" /\ last.access = "roles" /\ last.outcome = "ok"
    /\ last.roleOwner = "minter"
    /\ sc = NewStylusBuilder(ContractName)

\* The override targets of a function, in the order they were added.
Overrides(b, name) ==
    IF FunctionEntries(b, name) = {} THEN << >>
    ELSE b.functions[CHOOSE i \in FunctionEntries(b, name) : TRUE].override

\* The lists of parent identifiers of up to three targets, repeats included.
TargetLists == UNION { [1..n -> Range(IdentifierOrder)] : n \in 0..3 }

\* The override clause of a set of parent identifiers, written out in the
\* order of the identifiers' text.
ExpectedOverrideClause(names) ==
    CASE names = {} -> ""
      [] names = {"AccessControl"} -> "override(AccessControl)"
      [] names = {"AccessManaged"} -> "override(AccessManaged)"
      [] names = {"Ownable"} -> "override(Ownable)"
      [] names = {"AccessControl", "AccessManaged"} -> "override(AccessControl, AccessManaged)"
      [] names = {"AccessControl", "Ownable"} -> "override(AccessControl, Ownable)"
      [] names = {"AccessManaged", "Ownable"} -> "override(AccessManaged, Ownable)"
      [] names = {"AccessControl", "AccessManaged", "Ownable"}
           -> "override(AccessControl, AccessManaged, Ownable)"

\* The parents of the catalog.
ParentCatalog == {parents.Ownable, parents.AccessControl, parents.AccessManaged}

\* C17. Deduplicated override set: in a build that has not failed and holds
\* the AccessControl parent, the override targets of supportsInterface are
\* AccessControl, once, and the emitted function carries
\* override(AccessControl); no function holds a target twice; the override
\* clause of any list of targets (a property of the rendering alone, checked
\* where the session starts) is the clause of its set written in the order of
\* the identifiers, so two targets added to supportsInterface in either order
\* render the same clause.
DeduplicatedOverrideSet ==
    /\ \A i \in 1..Len(c.functions) : NoDup(c.functions[i].override)
    /\ (c.err = NoErr /\ CountParent(c, "AccessControl") = 1) =>
          /\ Overrides(c, "supportsInterface") = <<"AccessControl">>
          /\ "function supportsInterface(bytes4) public view override(AccessControl) {"
                \in Range(Render(c))
    /\ (c.err = NoErr /\ CountParent(c, "AccessControl") = 0) =>
          Overrides(c, "supportsInterface") = << >>
    /\ ncalls = 0 =>
          \A t \in TargetLists : OverrideClause(t) = ExpectedOverrideClause(Range(t))
    /\ Live(c) =>
          \A p, q \in ParentCatalog :
            LET pq == Overrides(addOverride(addOverride(c, p, supportsInterface),
                                            q, supportsInterface), "supportsInterface")
                qp == Overrides(addOverride(addOverride(c, q, supportsInterface),
                                            p, supportsInterface), "supportsInterface")
            IN  /\ NoDup(pq) /\ Range(pq) = Range(qp)
                /\ OverrideClause(pq) = OverrideClause(qp)

\* A build after two roles-mode calls for two roles.
DeduplicatedOverrideSetWitness ==
    /\ c.err = NoErr /\ ncalls = 2
    /\ HasConstant(c, RoleConstant("MINTER_ROLE")) /\ HasConstant(c, RoleConstant("PAUSER_ROLE"))
    /\ Overrides(c, "supportsInterface") = <<"AccessControl">>

\* The modifiers that restrict who may call a function.
RestrictingModifiers == {"onlyOwner", "restricted"} \cup { OnlyRole(r) : r \in RoleIds }

\* C18. Revocation is never unrestricted: a model built by one successful
\* addAddressVerification holds revokeAddressVerification exactly when the
\* access value passed was not false, and in every build that has not failed
\* and holds the function, the function carries onlyOwner, onlyRole(...) or
\* restricted.
RevocationNeverUnrestricted ==
    /\ ( /\ ncalls = 1 /\ c.err = NoErr
         /\ last.op \in {"addAddressVerification", "addAddressVerificationFreeform"} )
       => (FunctionEntries(c, "revokeAddressVerification") # {} <=> last.access # NoAccess)
    /\ (c.err = NoErr /\ FunctionEntries(c, "revokeAddressVerification") # {})
       => Range(Modifiers(c, "revokeAddressVerification")) \cap RestrictingModifiers # {}

CountConstant(b, text) ==
    Cardinality({ i \in 1..Len(b.constants) : b.constants[i].text = text })

\* The statements of a constructor body that grant the role `roleId`.
GrantsOf(b, roleId) ==
    { i \in 1..Len(b.ctorCode) : \E arg \in ArgumentNames : b.ctorCode[i] = RoleGrant(roleId, arg) }

\* C19. One grant per role id: a roles-mode requireAccessControl call that
\* succeeds leaves the constant of its role id registered once and the role
\* granted by at most one statement.  Past what setAccessControl('roles')
\* does, the call that newly registers the constant and names a role owner
\* adds the owner's argument and appends the owner's require and grant; a
\* call for a role id whose constant is registered changes nothing but the
\* functions, whatever role owner it names; a call with no role owner adds no
\* argument and no statement.  In each case the function gains onlyRole.
OneGrantPerRoleId ==
    [][ ( /\ IsCall("requireAccessControl") /\ dialect = "solidity"
          /\ last'.access = "roles" /\ c'.err = NoErr )
        => LET roleId == RoleId(last'.roleIdPrefix)
               owner  == last'.roleOwner
               b1     == setAccessControl(c, "roles")
           IN  /\ CountConstant(c', RoleConstant(roleId)) = 1
               /\ Cardinality(GrantsOf(c', roleId)) <= 1
               /\ OnlyRole(roleId) \in Range(Modifiers(c', last'.fn))
               /\ HasConstant(c, RoleConstant(roleId))
                    => /\ [c' EXCEPT !.functions = c.functions] = c
                       /\ GrantsOf(c', roleId) = GrantsOf(c, roleId)
               /\ owner = undefined
                    => /\ c'.ctorArgs = b1.ctorArgs /\ c'.ctorCode = b1.ctorCode
                       /\ GrantsOf(c', roleId) = GrantsOf(c, roleId)
               /\ (~HasConstant(c, RoleConstant(roleId)) /\ owner # undefined)
                    => /\ c'.ctorArgs =
                            IF HasArgument(b1, owner) THEN b1.ctorArgs
                            ELSE Append(b1.ctorArgs,
                                        [type |-> "address", name |-> owner, owner |-> Own])
                       /\ c'.ctorCode = b1.ctorCode
                                          \o << RoleOwnerRequire(owner), RoleGrant(roleId, owner) >>
      ]_vars

\* A second call for MINTER_ROLE that names another role owner: the function
\* is restricted, the role stays granted to the first owner alone.
OneGrantPerRoleIdWitness ==
    /\ ncalls = 2 /\ c.err = NoErr
    /\ last.op = "requireAccessControl" /\ last.access = "roles"
    /\ last.roleIdPrefix = "MINTER" /\ last.roleOwner = "initialOwner"
    /\ RoleGrant("MINTER_ROLE", "minter") \in Range(c.ctorCode)
    /\ ~HasArgument(c, "initialOwner")
    /\ Cardinality(GrantsOf(c, "MINTER_ROLE")) = 1
    /\ OnlyRole("MINTER_ROLE") \in Range(Modifiers(c, last.fn))

=============================================================================
